---------------------------- MODULE Spec2Model ----------------------------
(***************************************************************************)
(* Average-cost profit calculator (src/src/trade_processing.py).           *)
(*                                                                         *)
(* The state is one TraderProfitCalculator: its list of finished trades    *)
(* and its dictionary of bought tokens.  The single operation is           *)
(* receive_token_swap.  Each method of the class is an operator that       *)
(* computes what the method computes; the action ReceiveTokenSwap applies  *)
(* the whole handler to a swap drawn from a small set.                     *)
(*                                                                         *)
(* Python floats are binary floating point numbers rounded to nearest,     *)
(* ties to even.  The model keeps that arithmetic and bounds only the      *)
(* width of the significand (Precision bits instead of 53); exponents are  *)
(* unbounded, so there is no overflow, underflow or NaN.  A float is the   *)
(* pair <<n, d>> of the rational n/d in lowest terms, d a power of two.    *)
(***************************************************************************)
EXTENDS Integers, Sequences, FiniteSets, TLC

\* ------------------------------------------------------------------ bounds
Precision == 5      \* significand bits of a float (53 in CPython)
MaxSwaps == 3       \* receive_token_swap calls in one behaviour

\* ------------------------------------------------------- float arithmetic
RECURSIVE Pow2(_)
Pow2(k) == IF k = 0 THEN 1 ELSE 2 * Pow2(k - 1)

\* significands lie in MinSig .. MaxSig - 1
MinSig == Pow2(Precision - 1)
MaxSig == Pow2(Precision)

RECURSIVE GCD(_, _)
GCD(a, b) == IF b = 0 THEN a ELSE GCD(b, a % b)

IAbs(i) == IF i < 0 THEN -i ELSE i

\* the rational n/d (d > 0) in lowest terms
Norm(n, d) == LET g == GCD(IAbs(n), d) IN <<n \div g, d \div g>>

\* n/d * rn/rd for n, d > 0, rounded to Precision significant bits,
\* to nearest, ties to even
RECURSIVE RoundPos(_, _, _, _)
RoundPos(n, d, rn, rd) ==
    IF n < d * MinSig
    THEN IF d % 2 = 0 THEN RoundPos(n, d \div 2, rn, 2 * rd)
                      ELSE RoundPos(2 * n, d, rn, 2 * rd)
    ELSE IF n >= d * MaxSig
    THEN IF n % 2 = 0 THEN RoundPos(n \div 2, d, 2 * rn, rd)
                      ELSE RoundPos(n, 2 * d, 2 * rn, rd)
    ELSE LET q == n \div d
             r == n % d
             m == IF 2 * r > d \/ (2 * r = d /\ q % 2 = 1) THEN q + 1 ELSE q
         IN  Norm(m * rn, rd)

\* the float nearest to the rational n/d (d > 0)
Fl(n, d) ==
    IF n = 0 THEN <<0, 1>>
    ELSE IF d = 1 /\ IAbs(n) < MaxSig THEN <<n, 1>>
    ELSE LET f == Norm(n, d)
             p == RoundPos(IAbs(f[1]), f[2], 1, 1)
         IN  IF n < 0 THEN <<-p[1], p[2]>> ELSE p

\* float(i) for an integer literal or input
Float(i) == Fl(i, 1)

FAdd(x, y) == Fl(x[1] * y[2] + y[1] * x[2], x[2] * y[2])
FSub(x, y) == Fl(x[1] * y[2] - y[1] * x[2], x[2] * y[2])
FMul(x, y) == Fl(x[1] * y[1], x[2] * y[2])
\* x / y, y # 0 (a zero divisor raises ZeroDivisionError in Python)
FDiv(x, y) == IF y[1] > 0 THEN Fl(x[1] * y[2], x[2] * y[1])
                          ELSE Fl(-(x[1] * y[2]), x[2] * (-y[1]))
FAbs(x) == <<IAbs(x[1]), x[2]>>
FLt(x, y) == x[1] * y[2] < y[1] * x[2]
FLe(x, y) == x[1] * y[2] <= y[1] * x[2]
FGt(x, y) == FLt(y, x)
Zero == <<0, 1>>


\* ------------------------------------------------------------- constants
DIFF_DIVIDER == Float(10)
IGNORED_BUY_TOKEN_SYMBOLS == {"WETH", "USDT", "USDC", "DAI", "RAI"}

\* ------------------------------------------------------------ swap inputs
\* schemas.Token: the tokens of the tests and one more traded token
SPEX == [address |-> "0x00", symbol |-> "SPEX"]
USDT == [address |-> "0x11", symbol |-> "USDT"]
PEPE == [address |-> "0x22", symbol |-> "PEPE"]

\* a swap leg as the transaction decoder builds it: price_usd is
\* value_usd / amount
TradedToken(token, amount, value_usd) ==
    [address |-> token.address, symbol |-> token.symbol,
     amount |-> Float(amount), value_usd |-> Float(value_usd),
     price_usd |-> FDiv(Float(value_usd), Float(amount))]

\* amounts and USD values of the legs a swap may carry
SpexLegs == {TradedToken(SPEX, 7, 29), TradedToken(SPEX, 7, 3),
             TradedToken(SPEX, 2, 3)}
PepeLegs == {TradedToken(PEPE, 1, 3)}
UsdtLegs == {TradedToken(USDT, 29, 29)}
Legs == SpexLegs \cup PepeLegs \cup UsdtLegs

\* the sold and the bought legs of one swap: one or two sold legs (a swap
\* with nothing paid is never built), up to two bought legs, three legs at
\* most
LegLists ==
    {<<<<s>>, <<>>>> : s \in Legs}
    \cup {<<<<s>>, <<b>>>> : s \in Legs, b \in Legs}
    \cup {<<<<s>>, <<b, c>>>> : s \in Legs, b \in Legs, c \in Legs}
    \cup {<<<<s, t>>, <<>>>> : s \in Legs, t \in Legs}
    \cup {<<<<s, t>>, <<b>>>> : s \in Legs, t \in Legs, b \in Legs}

\* schemas.TokenSwap (usd_paid and usd_received are never read or written
\* by the calculator and are left out)
TokenSwap(time, sold_tokens, bought_tokens, transaction_hash) ==
    [time |-> time, sold_tokens |-> sold_tokens,
     bought_tokens |-> bought_tokens, transaction_hash |-> transaction_hash]

\* ------------------------------------------------ TraderProfitCalculator
\* mutant: the clamp is forgotten
ClampedAmount_unclamped(open_trade, token_sold) == token_sold.amount

\* the amount a closing trade realizes: the sold amount, clamped to the
\* amount owned
ClampedAmount(open_trade, token_sold) ==
    IF FGt(token_sold.amount, open_trade.currently_held_amount)
    THEN open_trade.currently_held_amount
    ELSE token_sold.amount

\* mutant: the profit is taken the wrong way round
_create_finished_trade_loss(open_trade, token_sold, sell_trade) ==
    LET sell_price_usd == token_sold.price_usd
        amount_sold == ClampedAmount(open_trade, token_sold)
        buy_price_usd == open_trade.average_buy_price_usd
        buy_value_usd == FMul(amount_sold, buy_price_usd)
        sell_value_usd == FMul(amount_sold, sell_price_usd)
        profit_usd == FSub(buy_value_usd, sell_value_usd)
    IN  [trade |->
            [token_bought |-> open_trade.token_bought,
             buy_price_usd |-> buy_price_usd,
             sell_price_usd |-> sell_price_usd,
             buy_value_usd |-> buy_value_usd,
             sell_value_usd |-> sell_value_usd,
             profit_usd |-> profit_usd,
             amount |-> amount_sold,
             sell_time |-> sell_trade.time,
             sell_transaction |-> sell_trade.transaction_hash],
         token_sold |->
            IF FGt(token_sold.amount, open_trade.currently_held_amount)
            THEN [token_sold EXCEPT !.amount = amount_sold]
            ELSE token_sold]

\* returns the finished trade and the sold leg as the call leaves it
_create_finished_trade(open_trade, token_sold, sell_trade) ==
    LET sell_price_usd == token_sold.price_usd
        amount_sold == ClampedAmount(open_trade, token_sold)
        buy_price_usd == open_trade.average_buy_price_usd
        buy_value_usd == FMul(amount_sold, buy_price_usd)
        sell_value_usd == FMul(amount_sold, sell_price_usd)
        profit_usd == FSub(sell_value_usd, buy_value_usd)
    IN  [trade |->
            [token_bought |-> open_trade.token_bought,
             buy_price_usd |-> buy_price_usd,
             sell_price_usd |-> sell_price_usd,
             buy_value_usd |-> buy_value_usd,
             sell_value_usd |-> sell_value_usd,
             profit_usd |-> profit_usd,
             amount |-> amount_sold,
             sell_time |-> sell_trade.time,
             sell_transaction |-> sell_trade.transaction_hash],
         token_sold |->
            IF FGt(token_sold.amount, open_trade.currently_held_amount)
            THEN [token_sold EXCEPT !.amount = amount_sold]
            ELSE token_sold]

\* mutant: the assertion demands a strictly smaller amount
AdjustPrecondition_strict(bought_token, new_token_sold) ==
    FLt(new_token_sold.amount, bought_token.currently_held_amount)

\* the assertion of _adjust_bought_token
AdjustPrecondition(bought_token, new_token_sold) ==
    FLe(new_token_sold.amount, bought_token.currently_held_amount)

\* mutant: the subtraction is the wrong way round
_adjust_bought_token_reversed(tokens, bought_token, new_token_sold) ==
    LET bought_token_address == bought_token.token_bought.address
        new_token_amount ==
            FSub(new_token_sold.amount, bought_token.currently_held_amount)
        adjusted_bought_token ==
            [bought_token EXCEPT !.currently_held_amount = new_token_amount]
    IN  IF ~AdjustPrecondition(bought_token, new_token_sold)
        THEN [bought_tokens |-> tokens, raised |-> TRUE]
        ELSE IF FGt(new_token_amount, Zero)
        THEN [bought_tokens |->
                [tokens EXCEPT ![bought_token_address] = adjusted_bought_token],
              raised |-> FALSE]
        ELSE [bought_tokens |->
                [a \in DOMAIN tokens \ {bought_token_address} |-> tokens[a]],
              raised |-> FALSE]

\* mutant: any sale removes the position
_adjust_bought_token_always_deletes(tokens, bought_token, new_token_sold) ==
    LET bought_token_address == bought_token.token_bought.address
    IN  IF ~AdjustPrecondition(bought_token, new_token_sold)
        THEN [bought_tokens |-> tokens, raised |-> TRUE]
        ELSE [bought_tokens |->
                [a \in DOMAIN tokens \ {bought_token_address} |-> tokens[a]],
              raised |-> FALSE]

\* mutant: a position sold down to nothing takes every other position with it
_adjust_bought_token_clears(tokens, bought_token, new_token_sold) ==
    LET bought_token_address == bought_token.token_bought.address
        new_token_amount ==
            FSub(bought_token.currently_held_amount, new_token_sold.amount)
        adjusted_bought_token ==
            [bought_token EXCEPT !.currently_held_amount = new_token_amount]
    IN  IF ~AdjustPrecondition(bought_token, new_token_sold)
        THEN [bought_tokens |-> tokens, raised |-> TRUE]
        ELSE IF FGt(new_token_amount, Zero)
        THEN [bought_tokens |->
                [tokens EXCEPT ![bought_token_address] = adjusted_bought_token],
              raised |-> FALSE]
        ELSE [bought_tokens |-> [a \in {} |-> tokens[a]], raised |-> FALSE]

\* mutant: a position sold down to nothing is kept
_adjust_bought_token_keeps_zero(tokens, bought_token, new_token_sold) ==
    LET bought_token_address == bought_token.token_bought.address
        new_token_amount ==
            FSub(bought_token.currently_held_amount, new_token_sold.amount)
        adjusted_bought_token ==
            [bought_token EXCEPT !.currently_held_amount = new_token_amount]
    IN  IF ~AdjustPrecondition(bought_token, new_token_sold)
        THEN [bought_tokens |-> tokens, raised |-> TRUE]
        ELSE [bought_tokens |->
                [tokens EXCEPT ![bought_token_address] = adjusted_bought_token],
              raised |-> FALSE]

\* returns the dictionary after the call and whether the assertion failed
_adjust_bought_token(tokens, bought_token, new_token_sold) ==
    LET bought_token_address == bought_token.token_bought.address
        new_token_amount ==
            FSub(bought_token.currently_held_amount, new_token_sold.amount)
        adjusted_bought_token ==
            [bought_token EXCEPT !.currently_held_amount = new_token_amount]
    IN  IF ~AdjustPrecondition(bought_token, new_token_sold)
        THEN [bought_tokens |-> tokens, raised |-> TRUE]
        ELSE IF FGt(new_token_amount, Zero)
        THEN [bought_tokens |->
                [tokens EXCEPT ![bought_token_address] = adjusted_bought_token],
              raised |-> FALSE]
        ELSE [bought_tokens |->
                [a \in DOMAIN tokens \ {bought_token_address} |-> tokens[a]],
              raised |-> FALSE]

Max(S) == CHOOSE i \in S : \A j \in S : i >= j

\* mutant: the last matching sold leg wins, not the first
ClosingLeg_last(tokens, new_trade) ==
    LET matching == {i \in DOMAIN new_trade.sold_tokens :
                        new_trade.sold_tokens[i].address \in DOMAIN tokens}
    IN  IF matching = {} THEN 0 ELSE Max(matching)

Min(S) == CHOOSE i \in S : \A j \in S : i <= j

\* mutant: no sold leg ever closes a position
ClosingLeg_none(tokens, new_trade) == 0

\* the index of the first sold leg whose token has an open position, or 0
ClosingLeg(tokens, new_trade) ==
    LET matching == {i \in DOMAIN new_trade.sold_tokens :
                        new_trade.sold_tokens[i].address \in DOMAIN tokens}
    IN  IF matching = {} THEN 0 ELSE Min(matching)

\* mutant: the clamp is applied to a copy of the sold leg, the swap is as it was
_check_closing_trade_copy(tokens, new_trade) ==
    LET i == ClosingLeg(tokens, new_trade)
    IN  IF i = 0
        THEN [finished_trade |-> <<>>, bought_tokens |-> tokens,
              token_swap |-> new_trade, raised |-> FALSE]
        ELSE LET new_token_sold == new_trade.sold_tokens[i]
                 bought_token == tokens[new_token_sold.address]
                 Closed(c, a) ==
                    [finished_trade |-> IF a.raised THEN <<>> ELSE <<c.trade>>,
                     bought_tokens |-> a.bought_tokens,
                     token_swap |-> new_trade,
                     raised |-> a.raised]
                 Adjusted(c) ==
                    Closed(c, _adjust_bought_token(tokens, bought_token,
                                                   c.token_sold))
             IN  Adjusted(_create_finished_trade(bought_token, new_token_sold,
                                                 new_trade))

\* returns the finished trade (a list of none or one), the dictionary and the
\* swap as the call leaves them, and whether the assertion failed
_check_closing_trade(tokens, new_trade) ==
    LET i == ClosingLeg(tokens, new_trade)
    IN  IF i = 0
        THEN [finished_trade |-> <<>>, bought_tokens |-> tokens,
              token_swap |-> new_trade, raised |-> FALSE]
        ELSE LET new_token_sold == new_trade.sold_tokens[i]
                 bought_token == tokens[new_token_sold.address]
                 Closed(c, a) ==
                    [finished_trade |-> IF a.raised THEN <<>> ELSE <<c.trade>>,
                     bought_tokens |-> a.bought_tokens,
                     token_swap |->
                        [new_trade EXCEPT !.sold_tokens[i] = c.token_sold],
                     raised |-> a.raised]
                 Adjusted(c) ==
                    Closed(c, _adjust_bought_token(tokens, bought_token,
                                                   c.token_sold))
             IN  Adjusted(_create_finished_trade(bought_token, new_token_sold,
                                                 new_trade))

\* mutant: the mean of the two prices, not weighted by the amounts
_calculate_new_average_price_unweighted(current_amount, current_price, new_amount, new_price) ==
    FDiv(FAdd(current_price, new_price), Float(2))

\* mutant: the new amount is left out of the divisor
_calculate_new_average_price_undivided(current_amount, current_price, new_amount, new_price) ==
    FDiv(FAdd(FMul(current_price, current_amount), FMul(new_price, new_amount)),
         current_amount)

_calculate_new_average_price(current_amount, current_price, new_amount, new_price) ==
    FDiv(FAdd(FMul(current_price, current_amount), FMul(new_price, new_amount)),
         FAdd(current_amount, new_amount))

\* mutant: the new amount replaces the held amount instead of adding to it
_extend_bought_token_replaces(tokens, new_single_token_buy) ==
    LET token_address == new_single_token_buy.token_bought.address
        current_bought_token == tokens[token_address]
        new_quantity == new_single_token_buy.bought_token_amount
        new_average_price ==
            _calculate_new_average_price(
                current_bought_token.currently_held_amount,
                current_bought_token.average_buy_price_usd,
                new_single_token_buy.bought_token_amount,
                new_single_token_buy.buy_price_usd)
    IN  [tokens EXCEPT ![token_address] =
            [token_bought |-> current_bought_token.token_bought,
             currently_held_amount |-> new_quantity,
             average_buy_price_usd |-> new_average_price,
             single_token_buys |->
                Append(current_bought_token.single_token_buys,
                       new_single_token_buy)]]

_extend_bought_token(tokens, new_single_token_buy) ==
    LET token_address == new_single_token_buy.token_bought.address
        current_bought_token == tokens[token_address]
        new_quantity ==
            FAdd(current_bought_token.currently_held_amount,
                 new_single_token_buy.bought_token_amount)
        new_average_price ==
            _calculate_new_average_price(
                current_bought_token.currently_held_amount,
                current_bought_token.average_buy_price_usd,
                new_single_token_buy.bought_token_amount,
                new_single_token_buy.buy_price_usd)
    IN  [tokens EXCEPT ![token_address] =
            [token_bought |-> current_bought_token.token_bought,
             currently_held_amount |-> new_quantity,
             average_buy_price_usd |-> new_average_price,
             single_token_buys |->
                Append(current_bought_token.single_token_buys,
                       new_single_token_buy)]]

\* mutant: the position's price is the buy's value, not its price per unit
_create_bought_token_unpriced(new_single_token_buy) ==
    [token_bought |-> new_single_token_buy.token_bought,
     currently_held_amount |-> new_single_token_buy.bought_token_amount,
     average_buy_price_usd |-> new_single_token_buy.value_usd,
     single_token_buys |-> <<new_single_token_buy>>]

\* mutant: the new position starts with an empty history
_create_bought_token_no_history(new_single_token_buy) ==
    [token_bought |-> new_single_token_buy.token_bought,
     currently_held_amount |-> new_single_token_buy.bought_token_amount,
     average_buy_price_usd |-> new_single_token_buy.buy_price_usd,
     single_token_buys |-> <<>>]

_create_bought_token(new_single_token_buy) ==
    [token_bought |-> new_single_token_buy.token_bought,
     currently_held_amount |-> new_single_token_buy.bought_token_amount,
     average_buy_price_usd |-> new_single_token_buy.buy_price_usd,
     single_token_buys |-> <<new_single_token_buy>>]

\* mutant: the difference is compared with the first number alone
_are_numbers_equal_one_sided(num_1, num_2, diff_divider) ==
    LET div_num_1 == FDiv(num_1, diff_divider)
        div_num_2 == FDiv(num_2, diff_divider)
    IN  FLt(FAbs(FSub(div_num_1, div_num_2)), div_num_1)

\* mutant: a difference equal to the mean also counts as equal
_are_numbers_equal_inclusive(num_1, num_2, diff_divider) ==
    LET div_num_1 == FDiv(num_1, diff_divider)
        div_num_2 == FDiv(num_2, diff_divider)
        max_difference ==
            FDiv(FAdd(FAdd(Zero, div_num_1), div_num_2), Float(2))
    IN  FLe(FAbs(FSub(div_num_1, div_num_2)), max_difference)

\* sum([div_num_1, div_num_2]) starts from 0
_are_numbers_equal(num_1, num_2, diff_divider) ==
    LET div_num_1 == FDiv(num_1, diff_divider)
        div_num_2 == FDiv(num_2, diff_divider)
        max_difference ==
            FDiv(FAdd(FAdd(Zero, div_num_1), div_num_2), Float(2))
    IN  FLt(FAbs(FSub(div_num_1, div_num_2)), max_difference)

\* mutant: only the first sold leg is compared with the bought leg
_create_single_token_buy_first_only(token_swap, bought_token, transaction_hash) ==
    IF _are_numbers_equal(bought_token.value_usd,
                          token_swap.sold_tokens[1].value_usd, DIFF_DIVIDER)
    THEN <<[buy_time |-> token_swap.time,
            buy_price_usd |-> FDiv(bought_token.value_usd, bought_token.amount),
            bought_token_amount |-> bought_token.amount,
            transaction_hash |-> transaction_hash,
            value_usd |-> bought_token.value_usd,
            token_bought |-> bought_token]>>
    ELSE <<>>

\* a list of one SingleTokenBuy, or the empty list where the method raises
\* UnassignedTradedTokenError
_create_single_token_buy(token_swap, bought_token, transaction_hash) ==
    IF \E i \in DOMAIN token_swap.sold_tokens :
          _are_numbers_equal(bought_token.value_usd,
                             token_swap.sold_tokens[i].value_usd, DIFF_DIVIDER)
    THEN <<[buy_time |-> token_swap.time,
            buy_price_usd |-> FDiv(bought_token.value_usd, bought_token.amount),
            bought_token_amount |-> bought_token.amount,
            transaction_hash |-> transaction_hash,
            value_usd |-> bought_token.value_usd,
            token_bought |-> bought_token]>>
    ELSE <<>>

\* mutant: nothing is filtered out
KeepTrade_all(trade) == TRUE

KeepTrade(trade) == trade.token_bought.symbol \notin IGNORED_BUY_TOKEN_SYMBOLS

_filter_out_ignored_token_trades(new_open_trades) ==
    SelectSeq(new_open_trades, KeepTrade)

\* mutant: the first leg whose buy cannot be created ends the conversion
RECURSIVE BuysUpTo_stops(_, _)
BuysUpTo_stops(token_swap, n) ==
    IF n = 0 THEN <<>>
    ELSE IF \E k \in 1..(n - 1) :
               _create_single_token_buy(token_swap, token_swap.bought_tokens[k],
                                        token_swap.transaction_hash) = <<>>
    THEN BuysUpTo_stops(token_swap, n - 1)
    ELSE BuysUpTo_stops(token_swap, n - 1) \o
         _create_single_token_buy(token_swap, token_swap.bought_tokens[n],
                                  token_swap.transaction_hash)

\* the buys of the first n bought legs, in leg order; a leg whose buy
\* cannot be created is skipped
RECURSIVE BuysUpTo(_, _)
BuysUpTo(token_swap, n) ==
    IF n = 0 THEN <<>>
    ELSE BuysUpTo(token_swap, n - 1) \o
         _create_single_token_buy(token_swap, token_swap.bought_tokens[n],
                                  token_swap.transaction_hash)

_convert_token_swap_to_single_token_buy(token_swap) ==
    _filter_out_ignored_token_trades(
        BuysUpTo(token_swap, Len(token_swap.bought_tokens)))

\* mutant: every buy creates a position, replacing the one that is there
ApplyBuy_always_creates(tokens, new_single_token_buy) ==
    LET token_bought_address == new_single_token_buy.token_bought.address
    IN  [a \in DOMAIN tokens \cup {token_bought_address} |->
            IF a = token_bought_address
            THEN _create_bought_token(new_single_token_buy)
            ELSE tokens[a]]

\* the dictionary after one turn of the loop of receive_token_swap
ApplyBuy(tokens, new_single_token_buy) ==
    LET token_bought_address == new_single_token_buy.token_bought.address
    IN  IF token_bought_address \in DOMAIN tokens
        THEN _extend_bought_token(tokens, new_single_token_buy)
        ELSE [a \in DOMAIN tokens \cup {token_bought_address} |->
                IF a = token_bought_address
                THEN _create_bought_token(new_single_token_buy)
                ELSE tokens[a]]

\* mutant: the buys are applied last to first
RECURSIVE ApplyBuys_reversed(_, _, _)
ApplyBuys_reversed(tokens, buys, n) ==
    IF n = 0 THEN tokens
    ELSE ApplyBuys_reversed(ApplyBuy(tokens, buys[n]), buys, n - 1)

RECURSIVE ApplyBuys(_, _, _)
ApplyBuys(tokens, buys, n) ==
    IF n = 0 THEN tokens
    ELSE ApplyBuy(ApplyBuys(tokens, buys, n - 1), buys[n])

\* mutant: a finished trade is put at the front of the list
receive_token_swap_prepends(trades, tokens, token_swap) ==
    LET Opened(new_single_token_buys) ==
            ApplyBuys(tokens, new_single_token_buys, Len(new_single_token_buys))
        Checked(c) ==
            IF c.raised
            THEN [finished_trades |-> trades, bought_tokens |-> c.bought_tokens,
                  token_swap |-> c.token_swap, raised |-> TRUE]
            ELSE IF c.finished_trade # <<>>
            THEN [finished_trades |-> c.finished_trade \o trades,
                  bought_tokens |-> c.bought_tokens,
                  token_swap |-> c.token_swap, raised |-> FALSE]
            ELSE [finished_trades |-> trades,
                  bought_tokens |->
                     Opened(_convert_token_swap_to_single_token_buy(token_swap)),
                  token_swap |-> token_swap, raised |-> FALSE]
    IN  Checked(_check_closing_trade(tokens, token_swap))

\* mutant: the buys of a swap are applied whether or not it closed a trade
receive_token_swap_also_opens(trades, tokens, token_swap) ==
    LET Opened(new_single_token_buys) ==
            ApplyBuys(tokens, new_single_token_buys, Len(new_single_token_buys))
        OpenedAfter(c, new_single_token_buys) ==
            ApplyBuys(c.bought_tokens, new_single_token_buys,
                      Len(new_single_token_buys))
        Checked(c) ==
            IF c.raised
            THEN [finished_trades |-> trades, bought_tokens |-> c.bought_tokens,
                  token_swap |-> c.token_swap, raised |-> TRUE]
            ELSE [finished_trades |-> trades \o c.finished_trade,
                  bought_tokens |->
                     OpenedAfter(c, _convert_token_swap_to_single_token_buy(
                                        token_swap)),
                  token_swap |-> c.token_swap, raised |-> FALSE]
    IN  Checked(_check_closing_trade(tokens, token_swap))

\* the calculator and the swap object after receive_token_swap
receive_token_swap(trades, tokens, token_swap) ==
    LET Opened(new_single_token_buys) ==
            ApplyBuys(tokens, new_single_token_buys, Len(new_single_token_buys))
        OpenedAfter(c, new_single_token_buys) ==
            ApplyBuys(c.bought_tokens, new_single_token_buys,
                      Len(new_single_token_buys))
        Checked(c) ==
            IF c.raised
            THEN [finished_trades |-> trades, bought_tokens |-> c.bought_tokens,
                  token_swap |-> c.token_swap, raised |-> TRUE]
            ELSE IF c.finished_trade # <<>>
            THEN [finished_trades |-> trades \o c.finished_trade,
                  bought_tokens |-> c.bought_tokens,
                  token_swap |-> c.token_swap, raised |-> FALSE]
            ELSE [finished_trades |-> trades,
                  bought_tokens |->
                     Opened(_convert_token_swap_to_single_token_buy(token_swap)),
                  token_swap |-> token_swap, raised |-> FALSE]
    IN  Checked(_check_closing_trade(tokens, token_swap))

\* ------------------------------------------------------------------ state
VARIABLES
    finished_trades,   \* self._finished_trades
    bought_tokens,     \* self._bought_tokens: address -> BoughtToken
    swap_in,           \* the swap passed to the last call, as it was passed
    swap_out,          \* the same swap object after the call
    raised,            \* whether the last call ended in AssertionError
    calls,             \* number of receive_token_swap calls so far
    token_swaps,       \* two swaps that are fed in both orders (none in Spec)
    reverse,           \* a second calculator, fed token_swaps last to first
    num_1,             \* first argument of _are_numbers_equal
    num_2,             \* second argument of _are_numbers_equal
    numbers_equal,     \* what _are_numbers_equal returned, once it was called
    diff_divider       \* third argument of _are_numbers_equal

\* the calculator the caller's loop feeds
calculator == <<finished_trades, bought_tokens, swap_in, swap_out, raised, calls>>

\* what the order comparison reads
comparison == <<token_swaps, reverse>>

\* what a call of _are_numbers_equal on its own reads and writes
numbers == <<num_1, num_2, numbers_equal, diff_divider>>

vars == <<calculator, comparison, numbers>>

NoSwap == TokenSwap(0, <<>>, <<>>, 0)

\* the empty dictionary
EmptyDict == [a \in {} |-> {}]

\* a calculator as __init__ leaves it, with the number of calls made on it
Fresh == [finished_trades |-> <<>>, bought_tokens |-> EmptyDict,
          raised |-> FALSE, calls |-> 0]

Init ==
    /\ finished_trades = <<>>
    /\ bought_tokens = EmptyDict
    /\ swap_in = NoSwap
    /\ swap_out = NoSwap
    /\ raised = FALSE
    /\ calls = 0
    /\ token_swaps = <<>>
    /\ reverse = Fresh
    /\ num_1 = Zero
    /\ num_2 = Zero
    /\ numbers_equal = <<>>
    /\ diff_divider = DIFF_DIVIDER

\* one call of receive_token_swap by the caller's loop; swaps arrive in
\* chronological order, the k-th swap carries time k and transaction hash k
ReceiveTokenSwap ==
    /\ calls < MaxSwaps
    /\ swap_in = NoSwap
    /\ \E legs \in LegLists :
          LET token_swap == TokenSwap(calls + 1, legs[1], legs[2], calls + 1)
          IN  \E r \in {receive_token_swap(finished_trades, bought_tokens,
                                           token_swap)} :
                /\ finished_trades' = r.finished_trades
                /\ bought_tokens' = r.bought_tokens
                /\ swap_in' = token_swap
                /\ swap_out' = r.token_swap
                /\ raised' = r.raised
    /\ calls' = calls + 1
    /\ UNCHANGED <<comparison, numbers>>

\* the call returned normally and the caller's loop moves on to its next swap
NextSwap ==
    /\ swap_in # NoSwap
    /\ ~raised
    /\ swap_in' = NoSwap
    /\ swap_out' = NoSwap
    /\ UNCHANGED <<finished_trades, bought_tokens, raised, calls>>
    /\ UNCHANGED <<comparison, numbers>>

Next == ReceiveTokenSwap \/ NextSwap

Spec == Init /\ [][Next]_vars

\* ------------------------------------------- two swaps, fed in both orders
\* the legs of the earlier swap, which pays with one leg, and of the later
\* swap, which receives at most one
BuyLegLists == {legs \in LegLists : Len(legs[1]) = 1}
SellLegLists == {legs \in LegLists : Len(legs[2]) <= 1}

\* two calculators are constructed and two swaps are given: the first
\* carries time 1 and transaction hash 1, the second time 2 and hash 2
InitOrder ==
    /\ finished_trades = <<>>
    /\ bought_tokens = EmptyDict
    /\ swap_in = NoSwap
    /\ swap_out = NoSwap
    /\ raised = FALSE
    /\ calls = 0
    /\ \E first \in BuyLegLists, second \in SellLegLists :
          token_swaps = <<TokenSwap(1, first[1], first[2], 1),
                          TokenSwap(2, second[1], second[2], 2)>>
    /\ reverse = Fresh
    /\ num_1 = Zero
    /\ num_2 = Zero
    /\ numbers_equal = <<>>
    /\ diff_divider = DIFF_DIVIDER

\* the first calculator receives the next of the two swaps, first to last
ForwardCall ==
    /\ calls < Len(token_swaps)
    /\ ~raised
    /\ \E r \in {receive_token_swap(finished_trades, bought_tokens,
                                    token_swaps[calls + 1])} :
          /\ finished_trades' = r.finished_trades
          /\ bought_tokens' = r.bought_tokens
          /\ swap_in' = token_swaps[calls + 1]
          /\ swap_out' = r.token_swap
          /\ raised' = r.raised
    /\ calls' = calls + 1
    /\ UNCHANGED <<comparison, numbers>>

\* the second calculator receives the next of the two swaps, last to first
ReverseCall ==
    /\ reverse.calls < Len(token_swaps)
    /\ ~reverse.raised
    /\ \E r \in {receive_token_swap(reverse.finished_trades, reverse.bought_tokens,
                                    token_swaps[Len(token_swaps) - reverse.calls])} :
          reverse' = [finished_trades |-> r.finished_trades,
                      bought_tokens |-> r.bought_tokens,
                      raised |-> r.raised,
                      calls |-> reverse.calls + 1]
    /\ UNCHANGED <<calculator, token_swaps, numbers>>

NextOrder == ForwardCall \/ ReverseCall

SpecOrder == InitOrder /\ [][NextOrder]_vars

\* ------------------------------------------ _are_numbers_equal on its own
\* the largest numerator of a USD value passed to _are_numbers_equal
MaxNumber == 12

\* USD values: whole numbers and thirds, as floats
Numbers == {FDiv(Float(n), Float(d)) : n \in 0..MaxNumber, d \in {1, 3}}

\* the two arguments are chosen; nothing else happens to the calculator
InitEqual ==
    /\ finished_trades = <<>>
    /\ bought_tokens = EmptyDict
    /\ swap_in = NoSwap
    /\ swap_out = NoSwap
    /\ raised = FALSE
    /\ calls = 0
    /\ token_swaps = <<>>
    /\ reverse = Fresh
    /\ num_1 \in Numbers
    /\ num_2 \in Numbers
    /\ numbers_equal = <<>>
    /\ diff_divider = DIFF_DIVIDER

\* _are_numbers_equal(num_1, num_2) with the default diff_divider
AreNumbersEqual ==
    /\ numbers_equal = <<>>
    /\ numbers_equal' = <<_are_numbers_equal(num_1, num_2, DIFF_DIVIDER)>>
    /\ UNCHANGED <<calculator, comparison, num_1, num_2, diff_divider>>

NextEqual == AreNumbersEqual

SpecEqual == InitEqual /\ [][NextEqual]_vars

\* ------------------------------- _are_numbers_equal with a chosen divisor
\* positive divisors, the default among them
Divisors == {Float(1), Float(2), Float(3), Float(7), DIFF_DIVIDER}

\* the three arguments are chosen; nothing else happens to the calculator
InitDivider ==
    /\ finished_trades = <<>>
    /\ bought_tokens = EmptyDict
    /\ swap_in = NoSwap
    /\ swap_out = NoSwap
    /\ raised = FALSE
    /\ calls = 0
    /\ token_swaps = <<>>
    /\ reverse = Fresh
    /\ num_1 \in Numbers
    /\ num_2 \in Numbers
    /\ numbers_equal = <<>>
    /\ diff_divider \in Divisors

\* _are_numbers_equal(num_1, num_2, diff_divider)
AreNumbersEqualWith ==
    /\ numbers_equal = <<>>
    /\ numbers_equal' = <<_are_numbers_equal(num_1, num_2, diff_divider)>>
    /\ UNCHANGED <<calculator, comparison, num_1, num_2, diff_divider>>

NextDivider == AreNumbersEqualWith

SpecDivider == InitDivider /\ [][NextDivider]_vars

\* ------------------------------------------------- vocabulary of the claims
\* this step is a call of receive_token_swap
IsCall == calls' = calls + 1

\* this step is a call that emitted a RealizedTrade
IsClose == IsCall /\ Len(finished_trades') = Len(finished_trades) + 1

\* the trade the last close emitted
LastTrade == finished_trades[Len(finished_trades)]

\* the last call closed or reduced a position
LastCallClosed ==
    /\ swap_in # NoSwap
    /\ finished_trades # <<>>
    /\ LastTrade.sell_time = swap_in.time

\* the sold leg a call closes against: the first one, in the swap's order,
\* whose token has an open position
HasOpenSoldLeg(tokens, swap) ==
    \E i \in DOMAIN swap.sold_tokens : swap.sold_tokens[i].address \in DOMAIN tokens

FirstOpenSoldLeg(tokens, swap) ==
    swap.sold_tokens[
        CHOOSE i \in DOMAIN swap.sold_tokens :
            /\ swap.sold_tokens[i].address \in DOMAIN tokens
            /\ \A j \in 1..(i - 1) : swap.sold_tokens[j].address \notin DOMAIN tokens]

\* the rational x is within k * 2^-Precision * |c| of the rational c
Within(x, c, k) ==
    IAbs(x[1] * c[2] - c[1] * x[2]) * MaxSig <= k * IAbs(c[1]) * x[2]

\* ----------------------------------------------------------------- C1
\* the position of X is exactly one purchase of n units, nothing sold since,
\* and this call's closing leg sells n units of X
RoundTripCase ==
    /\ IsCall
    /\ HasOpenSoldLeg(bought_tokens, swap_in')
    /\ LET leg == FirstOpenSoldLeg(bought_tokens, swap_in')
           pos == bought_tokens[leg.address]
       IN  /\ Len(pos.single_token_buys) = 1
           /\ pos.currently_held_amount = pos.single_token_buys[1].bought_token_amount
           /\ leg.amount = pos.currently_held_amount

\* exactly one trade of amount n is emitted and the position is removed
RoundTripCloses ==
    LET leg == FirstOpenSoldLeg(bought_tokens, swap_in')
        pos == bought_tokens[leg.address]
    IN  /\ ~raised'
        /\ Len(finished_trades') = Len(finished_trades) + 1
        /\ SubSeq(finished_trades', 1, Len(finished_trades)) = finished_trades
        /\ finished_trades'[Len(finished_trades')].amount = pos.currently_held_amount
        /\ finished_trades'[Len(finished_trades')].token_bought.address = leg.address
        /\ leg.address \notin DOMAIN bought_tokens'

\* C1 as stated (Round trip): buying n units of X for C and then selling the n
\* units for P yields one RealizedTrade with amount = n, buy_value_usd = C,
\* sell_value_usd = P and profit_usd = P - C, and X has no position afterwards.
C1_RoundTripExact ==
    [][RoundTripCase =>
        LET leg == FirstOpenSoldLeg(bought_tokens, swap_in')
            buy == bought_tokens[leg.address].single_token_buys[1]
            t == finished_trades'[Len(finished_trades')]
        IN  /\ RoundTripCloses
            /\ t.buy_value_usd = buy.value_usd
            /\ t.sell_value_usd = leg.value_usd
            /\ t.profit_usd = FSub(leg.value_usd, buy.value_usd)]_vars

\* C1 as amended: the round trip yields one RealizedTrade with amount = n and
\* removes the position; buy_value_usd is the float product n * (C / n) and
\* sell_value_usd the float product n * (P / n), each within three units of
\* relative rounding error of C and of P but not always equal to them, and
\* profit_usd is the float difference sell_value_usd - buy_value_usd.
C1_RoundTripRounded ==
    [][RoundTripCase =>
        LET leg == FirstOpenSoldLeg(bought_tokens, swap_in')
            buy == bought_tokens[leg.address].single_token_buys[1]
            n == leg.amount
            t == finished_trades'[Len(finished_trades')]
        IN  /\ RoundTripCloses
            /\ t.buy_value_usd = FMul(n, FDiv(buy.value_usd, n))
            /\ t.sell_value_usd = FMul(n, FDiv(leg.value_usd, n))
            /\ t.profit_usd = FSub(t.sell_value_usd, t.buy_value_usd)
            /\ Within(t.buy_value_usd, buy.value_usd, 3)
            /\ Within(t.sell_value_usd, leg.value_usd, 3)]_vars

\* a buy of n units followed by a sale of the n units, with P # C
C1_Witness ==
    /\ calls = 2
    /\ LastCallClosed
    /\ LastTrade.token_bought.address \notin DOMAIN bought_tokens
    /\ swap_out = swap_in
    /\ LastTrade.amount = LastTrade.token_bought.amount
    /\ LastTrade.sell_value_usd # LastTrade.buy_value_usd

\* ----------------------------------------------------------------- C2
\* the acquisitions a call that closes nothing applies to the ledger
Acquired(swap) == _convert_token_swap_to_single_token_buy(swap)

\* those of them that buy the token at address X
BuysOf(buys, X) == SelectSeq(buys, LAMBDA b : b.token_bought.address = X)

\* the purchases that make up X's position before the call, when nothing
\* was sold from it
PriorBuys(X) ==
    IF X \in DOMAIN bought_tokens THEN bought_tokens[X].single_token_buys ELSE <<>>

\* X's position is untouched by sales, and with this call's acquisitions it
\* consists of exactly two purchases
TwoAcquisitionsCase(X) ==
    /\ IsCall
    /\ ~HasOpenSoldLeg(bought_tokens, swap_in')
    /\ BuysOf(Acquired(swap_in'), X) # <<>>
    /\ Len(PriorBuys(X) \o BuysOf(Acquired(swap_in'), X)) = 2
    /\ X \in DOMAIN bought_tokens =>
          bought_tokens[X].currently_held_amount =
              bought_tokens[X].single_token_buys[1].bought_token_amount

\* C2 (Weighted average): after two consecutive acquisitions of a token, a
\* units at price p1 and then b units at price p2, the position holds a + b
\* units at the average price (p1*a + p2*b)/(a + b), its history ends with
\* the second acquisition, and no RealizedTrade is emitted.
C2_WeightedAverage ==
    [][\A X \in {SPEX.address, PEPE.address, USDT.address} :
          TwoAcquisitionsCase(X) =>
            LET both == PriorBuys(X) \o BuysOf(Acquired(swap_in'), X)
                a == both[1].bought_token_amount
                p1 == both[1].buy_price_usd
                b == both[2].bought_token_amount
                p2 == both[2].buy_price_usd
            IN  /\ X \in DOMAIN bought_tokens'
                /\ bought_tokens'[X].currently_held_amount = FAdd(a, b)
                /\ bought_tokens'[X].average_buy_price_usd =
                      FDiv(FAdd(FMul(p1, a), FMul(p2, b)), FAdd(a, b))
                /\ bought_tokens'[X].single_token_buys = both
                /\ finished_trades' = finished_trades
                /\ ~raised']_vars

\* a position bought in two swaps at two different prices
C2_Witness ==
    /\ swap_in # NoSwap
    /\ finished_trades = <<>>
    /\ \E X \in DOMAIN bought_tokens :
          LET h == bought_tokens[X].single_token_buys
          IN  /\ Len(h) = 2
              /\ h[1].buy_time # h[2].buy_time
              /\ h[2].buy_time = swap_in.time
              /\ h[1].buy_price_usd # h[2].buy_price_usd
              /\ h[1].bought_token_amount # h[2].bought_token_amount

\* ----------------------------------------------------------------- C3
\* C3 (Partial close preserves cost basis): when a closing swap sells k < n
\* units of a position holding n units, the position stays in the ledger with
\* held amount n - k and with its average price and history unchanged.
C3_PartialClose ==
    [][(/\ IsCall
        /\ HasOpenSoldLeg(bought_tokens, swap_in')
        /\ FLt(FirstOpenSoldLeg(bought_tokens, swap_in').amount,
               bought_tokens[FirstOpenSoldLeg(bought_tokens, swap_in').address]
                   .currently_held_amount))
       =>
        LET leg == FirstOpenSoldLeg(bought_tokens, swap_in')
            pos == bought_tokens[leg.address]
        IN  /\ leg.address \in DOMAIN bought_tokens'
            /\ bought_tokens'[leg.address].currently_held_amount =
                  FSub(pos.currently_held_amount, leg.amount)
            /\ bought_tokens'[leg.address].average_buy_price_usd =
                  pos.average_buy_price_usd
            /\ bought_tokens'[leg.address].single_token_buys =
                  pos.single_token_buys
            /\ bought_tokens'[leg.address].token_bought = pos.token_bought]_vars

\* a position bought twice and then sold in part
C3_Witness ==
    /\ LastCallClosed
    /\ swap_out = swap_in
    /\ LastTrade.token_bought.address \in DOMAIN bought_tokens
    /\ Len(bought_tokens[LastTrade.token_bought.address].single_token_buys) = 2
    /\ FLt(Zero, bought_tokens[LastTrade.token_bought.address].currently_held_amount)

\* ----------------------------------------------------------------- C4
\* C4 (Over-sell clamp): when the closing sold leg's amount k exceeds the
\* held amount n, the trade has amount = n, sell_value_usd = n * the leg's
\* price and buy_value_usd = n * the average price, the call does not fail
\* and the position is removed.
C4_OverSellClamp ==
    [][(/\ IsCall
        /\ HasOpenSoldLeg(bought_tokens, swap_in')
        /\ FGt(FirstOpenSoldLeg(bought_tokens, swap_in').amount,
               bought_tokens[FirstOpenSoldLeg(bought_tokens, swap_in').address]
                   .currently_held_amount))
       =>
        LET leg == FirstOpenSoldLeg(bought_tokens, swap_in')
            pos == bought_tokens[leg.address]
            n == pos.currently_held_amount
            t == finished_trades'[Len(finished_trades')]
        IN  /\ ~raised'
            /\ Len(finished_trades') = Len(finished_trades) + 1
            /\ t.amount = n
            /\ t.amount # leg.amount
            /\ t.sell_value_usd = FMul(n, leg.price_usd)
            /\ t.buy_value_usd = FMul(n, pos.average_buy_price_usd)
            /\ leg.address \notin DOMAIN bought_tokens']_vars

\* a close whose sold leg was larger than the position
C4_Witness ==
    /\ LastCallClosed
    /\ ~raised
    /\ \E i \in DOMAIN swap_in.sold_tokens :
          /\ swap_in.sold_tokens[i].address = LastTrade.token_bought.address
          /\ FLt(LastTrade.amount, swap_in.sold_tokens[i].amount)
          /\ \A j \in 1..(i - 1) :
                swap_in.sold_tokens[j].address # LastTrade.token_bought.address

\* ----------------------------------------------------------------- C5
\* C5: the closed amount of every emitted RealizedTrade is at most the held
\* amount its position had immediately before the close, and the assertion
\* of _adjust_bought_token holds whenever it is reached: no call fails on it.
C5_ClosedAtMostHeld ==
    [][IsCall =>
        /\ ~raised'
        /\ HasOpenSoldLeg(bought_tokens, swap_in') =>
              /\ IsClose
              /\ FLe(FirstOpenSoldLeg(bought_tokens, swap_out').amount,
                     bought_tokens[FirstOpenSoldLeg(bought_tokens, swap_in').address]
                         .currently_held_amount)
              /\ FLe(finished_trades'[Len(finished_trades')].amount,
                     bought_tokens[finished_trades'[Len(finished_trades')]
                                      .token_bought.address].currently_held_amount)]_vars

\* a partial close followed by an over-sell of what was left: the assertion
\* was reached twice, once after a clamp
C5_Witness ==
    /\ Len(finished_trades) = 2
    /\ ~raised
    /\ swap_in # NoSwap
    /\ swap_out # swap_in
    /\ finished_trades[1].token_bought.address = finished_trades[2].token_bought.address
    /\ finished_trades[1].sell_time < finished_trades[2].sell_time

\* ----------------------------------------------------------------- C6
\* C6: every position in the open-positions mapping has a held amount
\* strictly greater than zero; a position that reaches zero is removed.
C6_HeldAmountPositive ==
    \A a \in DOMAIN bought_tokens :
        FGt(bought_tokens[a].currently_held_amount, Zero)

\* one position was just sold down to exactly zero and is gone, another is
\* still open
C6_Witness ==
    /\ LastCallClosed
    /\ swap_out = swap_in
    /\ LastTrade.token_bought.address \notin DOMAIN bought_tokens
    /\ DOMAIN bought_tokens # {}

\* ----------------------------------------------------------------- C7
\* C7: a swap that closes a position never also opens or extends one: in a
\* call that emits a RealizedTrade no position is created and no position's
\* held amount grows or average price or history changes.
C7_CloseNeverOpens ==
    [][IsClose =>
        /\ DOMAIN bought_tokens' \subseteq DOMAIN bought_tokens
        /\ \A a \in DOMAIN bought_tokens' :
              /\ FLe(bought_tokens'[a].currently_held_amount,
                     bought_tokens[a].currently_held_amount)
              /\ bought_tokens'[a].average_buy_price_usd =
                    bought_tokens[a].average_buy_price_usd
              /\ bought_tokens'[a].single_token_buys =
                    bought_tokens[a].single_token_buys]_vars

\* the closing swap carried a matched bought leg of a tracked token that has
\* no position
C7_Witness ==
    /\ LastCallClosed
    /\ \E k \in DOMAIN Acquired(swap_in) :
          Acquired(swap_in)[k].token_bought.address \notin DOMAIN bought_tokens

\* ----------------------------------------------------------------- C8
\* the sold legs of the swap whose tokens have open positions
OpenSoldLegs(tokens, swap) ==
    {i \in DOMAIN swap.sold_tokens : swap.sold_tokens[i].address \in DOMAIN tokens}

\* C8 (Single-match policy): when several sold legs of a swap have tokens
\* with open positions, exactly one RealizedTrade is emitted, for the first
\* such leg; only that leg's position is closed or reduced and every other
\* position is left unchanged.
C8_SingleMatch ==
    [][(IsCall /\ Cardinality(OpenSoldLegs(bought_tokens, swap_in')) >= 2) =>
        LET leg == FirstOpenSoldLeg(bought_tokens, swap_in')
            pos == bought_tokens[leg.address]
            t == finished_trades'[Len(finished_trades')]
        IN  /\ Len(finished_trades') = Len(finished_trades) + 1
            /\ t.token_bought = pos.token_bought
            /\ t.sell_price_usd = leg.price_usd
            /\ \/ leg.address \notin DOMAIN bought_tokens'
               \/ bought_tokens'[leg.address].currently_held_amount =
                     FSub(pos.currently_held_amount, leg.amount)
            /\ \A a \in DOMAIN bought_tokens \ {leg.address} :
                  /\ a \in DOMAIN bought_tokens'
                  /\ bought_tokens'[a] = bought_tokens[a]]_vars

\* the swap sold two tokens with open positions: the first was closed, the
\* second is still open
C8_Witness ==
    /\ LastCallClosed
    /\ Len(swap_in.sold_tokens) = 2
    /\ swap_in.sold_tokens[1].address = LastTrade.token_bought.address
    /\ swap_in.sold_tokens[2].address # swap_in.sold_tokens[1].address
    /\ swap_in.sold_tokens[2].address \in DOMAIN bought_tokens

\* ----------------------------------------------------------------- C9
\* C9 (Ignored symbols never open positions): no position in the
\* open-positions mapping, and no purchase in a position's history, has a
\* token symbol in the ignore set.
C9_IgnoredNeverOpen ==
    \A a \in DOMAIN bought_tokens :
        /\ bought_tokens[a].token_bought.symbol \notin IGNORED_BUY_TOKEN_SYMBOLS
        /\ \A k \in DOMAIN bought_tokens[a].single_token_buys :
              bought_tokens[a].single_token_buys[k].token_bought.symbol
                  \notin IGNORED_BUY_TOKEN_SYMBOLS

\* the first swap bought an ignored token and a tracked token, both matched
\* by the sold leg: only the tracked one was opened
C9_Witness ==
    /\ calls = 1
    /\ swap_in # NoSwap
    /\ DOMAIN bought_tokens # {}
    /\ \E i \in DOMAIN swap_in.bought_tokens :
          /\ swap_in.bought_tokens[i].symbol \in IGNORED_BUY_TOKEN_SYMBOLS
          /\ \E j \in DOMAIN swap_in.sold_tokens :
                _are_numbers_equal(swap_in.bought_tokens[i].value_usd,
                                   swap_in.sold_tokens[j].value_usd, DIFF_DIVIDER)

\* ---------------------------------------------------------------- C10
\* C10: a token has at most one open position: each position is filed under
\* the address of its own token and holds purchases of that token only, and
\* a call that closes nothing adds each acquisition of a token to the one
\* position of that token (extending it if it exists) instead of replacing it.
C10_OnePositionPerToken ==
    [][/\ \A a \in DOMAIN bought_tokens' :
             /\ bought_tokens'[a].token_bought.address = a
             /\ \A k \in DOMAIN bought_tokens'[a].single_token_buys :
                   bought_tokens'[a].single_token_buys[k].token_bought.address = a
       /\ (IsCall /\ ~IsClose) =>
             /\ DOMAIN bought_tokens \subseteq DOMAIN bought_tokens'
             /\ \A a \in DOMAIN bought_tokens' :
                   bought_tokens'[a].single_token_buys =
                       PriorBuys(a) \o BuysOf(Acquired(swap_in'), a)]_vars

\* one swap bought the same token in two legs: one position, two purchases
C10_Witness ==
    \E a \in DOMAIN bought_tokens :
        LET h == bought_tokens[a].single_token_buys
        IN  /\ Len(h) = 3
            /\ h[1].buy_time < h[2].buy_time
            /\ h[2].buy_time = h[3].buy_time

\* ---------------------------------------------------------------- C11
\* C11: the realized-trades list is append-only and in processing order:
\* every step leaves the previous list as a prefix of the new list, a call
\* adds at most one trade, the trade a call adds carries the timestamp and
\* the transaction hash of that call's swap, and so the trades of the list
\* are in the order of the swaps that closed them.
C11_AppendOnly ==
    [][/\ Len(finished_trades') \in {Len(finished_trades), Len(finished_trades) + 1}
       /\ SubSeq(finished_trades', 1, Len(finished_trades)) = finished_trades
       /\ IsClose =>
             /\ finished_trades'[Len(finished_trades')].sell_time = swap_in'.time
             /\ finished_trades'[Len(finished_trades')].sell_transaction =
                   swap_in'.transaction_hash
       /\ \A i, j \in DOMAIN finished_trades' :
             i < j => finished_trades'[i].sell_time < finished_trades'[j].sell_time]_vars

\* two swaps closed a position, one after the other
C11_Witness ==
    /\ LastCallClosed
    /\ Len(finished_trades) = 2
    /\ finished_trades[1].sell_transaction # finished_trades[2].sell_transaction

\* ---------------------------------------------------------------- C12
\* the ledger after an acquisition is applied by create-or-extend
CreateOrExtend(tokens, acq) ==
    LET X == acq.token_bought.address
    IN  IF X \in DOMAIN tokens
        THEN [tokens EXCEPT ![X] =
                [token_bought |-> @.token_bought,
                 currently_held_amount |->
                    FAdd(@.currently_held_amount, acq.bought_token_amount),
                 average_buy_price_usd |->
                    FDiv(FAdd(FMul(@.average_buy_price_usd, @.currently_held_amount),
                              FMul(acq.buy_price_usd, acq.bought_token_amount)),
                         FAdd(@.currently_held_amount, acq.bought_token_amount)),
                 single_token_buys |-> Append(@.single_token_buys, acq)]]
        ELSE [a \in DOMAIN tokens \cup {X} |->
                IF a = X
                THEN [token_bought |-> acq.token_bought,
                      currently_held_amount |-> acq.bought_token_amount,
                      average_buy_price_usd |-> acq.buy_price_usd,
                      single_token_buys |-> <<acq>>]
                ELSE tokens[a]]

\* the ledger after the first n of the acquisitions are applied, in order
RECURSIVE AppliedInOrder(_, _, _)
AppliedInOrder(tokens, acqs, n) ==
    IF n = 0 THEN tokens
    ELSE CreateOrExtend(AppliedInOrder(tokens, acqs, n - 1), acqs[n])

\* C12: receive_token_swap appends exactly one RealizedTrade when some sold
\* leg's token has an open position and none otherwise; when no sold leg
\* matches an open position the list is unchanged and the swap's acquisitions
\* are each applied to the ledger by create-or-extend, in bought-leg order.
C12_CloseOrOpen ==
    [][IsCall =>
        IF HasOpenSoldLeg(bought_tokens, swap_in')
        THEN /\ Len(finished_trades') = Len(finished_trades) + 1
             /\ SubSeq(finished_trades', 1, Len(finished_trades)) = finished_trades
        ELSE /\ finished_trades' = finished_trades
             /\ bought_tokens' =
                   AppliedInOrder(bought_tokens, Acquired(swap_in'),
                                  Len(Acquired(swap_in')))]_vars

\* a swap that closed nothing applied two acquisitions of the same token,
\* of different amounts, to a position that was there before
C12_Witness ==
    /\ swap_in # NoSwap
    /\ ~LastCallClosed
    /\ Len(Acquired(swap_in)) = 2
    /\ Acquired(swap_in)[1].token_bought.address =
          Acquired(swap_in)[2].token_bought.address
    /\ Acquired(swap_in)[1].bought_token_amount #
          Acquired(swap_in)[2].bought_token_amount
    /\ Len(bought_tokens[Acquired(swap_in)[1].token_bought.address].single_token_buys) = 3

\* ---------------------------------------------------------------- C13
\* bought leg b of the swap has a sold leg of approximately equal value
LegMatched(swap, b) ==
    \E j \in DOMAIN swap.sold_tokens :
        _are_numbers_equal(b.value_usd, swap.sold_tokens[j].value_usd, DIFF_DIVIDER)

\* the bought legs of the swap that are acquisitions of the token at X
AcquiredLegs(swap, X) ==
    {i \in DOMAIN swap.bought_tokens :
        /\ swap.bought_tokens[i].address = X
        /\ swap.bought_tokens[i].symbol \notin IGNORED_BUY_TOKEN_SYMBOLS
        /\ LegMatched(swap, swap.bought_tokens[i])}

\* C13 (First acquisition creates the position): when a call that closes
\* nothing acquires, in one bought leg b, a non-ignored token that has no open
\* position, the ledger gains a position for that token with held amount =
\* b.amount, average price = b.value_usd / b.amount and a history of exactly
\* that one acquisition, whose buy time is the swap's timestamp.
C13_FirstAcquisitionCreates ==
    [][\A i \in DOMAIN swap_in'.bought_tokens :
        LET b == swap_in'.bought_tokens[i]
        IN  (/\ IsCall
             /\ ~HasOpenSoldLeg(bought_tokens, swap_in')
             /\ b.address \notin DOMAIN bought_tokens
             /\ AcquiredLegs(swap_in', b.address) = {i}) =>
                /\ b.address \in DOMAIN bought_tokens'
                /\ LET p == bought_tokens'[b.address]
                   IN  /\ p.token_bought = b
                       /\ p.currently_held_amount = b.amount
                       /\ p.average_buy_price_usd = FDiv(b.value_usd, b.amount)
                       /\ Len(p.single_token_buys) = 1
                       /\ p.single_token_buys[1].buy_time = swap_in'.time
                       /\ p.single_token_buys[1].transaction_hash =
                             swap_in'.transaction_hash
                       /\ p.single_token_buys[1].bought_token_amount = b.amount
                       /\ p.single_token_buys[1].value_usd = b.value_usd
                       /\ p.single_token_buys[1].buy_price_usd =
                             FDiv(b.value_usd, b.amount)
                       /\ p.single_token_buys[1].token_bought = b]_vars

\* the third swap opened a position for a token never held before, next to
\* a position that was already there
C13_Witness ==
    /\ calls = 3
    /\ swap_in # NoSwap
    /\ ~LastCallClosed
    /\ Cardinality(DOMAIN bought_tokens) = 2
    /\ \E a \in DOMAIN bought_tokens :
          /\ Len(bought_tokens[a].single_token_buys) = 1
          /\ bought_tokens[a].single_token_buys[1].buy_time = 3
          /\ AcquiredLegs(swap_in, a) # {}

\* ---------------------------------------------------------------- C14
\* both calculators have received both swaps
BothOrdersFed ==
    /\ Len(token_swaps) = 2
    /\ calls = 2
    /\ reverse.calls = 2

\* the two calculators ended with the same realized trades and positions
SameResult ==
    /\ finished_trades = reverse.finished_trades
    /\ bought_tokens = reverse.bought_tokens

\* C14 as stated (Order sensitivity): for a swap that buys non-ignored token
\* X and a later swap that sells X, a fresh calculator fed sell first, then
\* buy, ends with a different result (realized trades and open positions)
\* than one fed buy first, then sell.
C14_OrderSensitive ==
    (/\ BothOrdersFed
     /\ \E i \in DOMAIN token_swaps[1].bought_tokens,
           j \in DOMAIN token_swaps[2].sold_tokens :
           /\ token_swaps[1].bought_tokens[i].symbol \notin IGNORED_BUY_TOKEN_SYMBOLS
           /\ token_swaps[2].sold_tokens[j].address =
                 token_swaps[1].bought_tokens[i].address)
    => ~SameResult

\* C14 as amended: when the first swap acquires non-ignored token X (its
\* bought leg of X has a sold leg of approximately equal value) and the later
\* swap sells X, the two orders end with different results; a bought leg that
\* no sold leg matches is dropped, and then the two orders can end the same.
C14_OrderSensitiveWhenAcquired ==
    (/\ BothOrdersFed
     /\ \E j \in DOMAIN token_swaps[2].sold_tokens :
           AcquiredLegs(token_swaps[1], token_swaps[2].sold_tokens[j].address) # {})
    => ~SameResult

\* buy then sell realized a trade and emptied the ledger; sell then buy
\* realized nothing and left the position open
C14_Witness ==
    /\ BothOrdersFed
    /\ Len(finished_trades) = 1
    /\ DOMAIN bought_tokens = {}
    /\ reverse.finished_trades = <<>>
    /\ DOMAIN reverse.bought_tokens # {}
    /\ AcquiredLegs(token_swaps[1], token_swaps[2].sold_tokens[1].address) # {}

\* ---------------------------------------------------------------- C15
\* C15: every RealizedTrade of the list has buy_value_usd = amount *
\* buy_price_usd, sell_value_usd = amount * sell_price_usd and profit_usd =
\* sell_value_usd - buy_value_usd (float operations), and the trade a call
\* adds has the matched position's average_buy_price_usd at close time as
\* buy_price_usd, the closing sold leg's price_usd as sell_price_usd and the
\* leg's amount, clamped to the held amount, as amount.
C15_TradeArithmetic ==
    [][/\ \A k \in DOMAIN finished_trades' :
             LET t == finished_trades'[k]
             IN  /\ t.buy_value_usd = FMul(t.amount, t.buy_price_usd)
                 /\ t.sell_value_usd = FMul(t.amount, t.sell_price_usd)
                 /\ t.profit_usd = FSub(t.sell_value_usd, t.buy_value_usd)
       /\ IsClose =>
             LET leg == FirstOpenSoldLeg(bought_tokens, swap_in')
                 pos == bought_tokens[leg.address]
                 t == finished_trades'[Len(finished_trades')]
             IN  /\ t.buy_price_usd = pos.average_buy_price_usd
                 /\ t.sell_price_usd = leg.price_usd
                 /\ t.token_bought = pos.token_bought
                 /\ t.amount = IF FLt(pos.currently_held_amount, leg.amount)
                               THEN pos.currently_held_amount
                               ELSE leg.amount]_vars

\* a position made of two purchases at different prices was sold at a loss
C15_Witness ==
    /\ LastCallClosed
    /\ LastTrade.profit_usd[1] < 0
    /\ \A k \in DOMAIN Acquired(swap_in) :
          Acquired(swap_in)[k].buy_price_usd # LastTrade.buy_price_usd
    /\ LastTrade.buy_price_usd # LastTrade.token_bought.price_usd

\* ---------------------------------------------------------------- C16
\* the Acquisition the Leg Matcher emits for bought leg b of the swap
LegAcquisition(swap, b) ==
    [buy_time |-> swap.time,
     buy_price_usd |-> FDiv(b.value_usd, b.amount),
     bought_token_amount |-> b.amount,
     transaction_hash |-> swap.transaction_hash,
     value_usd |-> b.value_usd,
     token_bought |-> b]

\* C16 (Leg Matcher): for each bought leg b of a non-closing swap exactly one
\* Acquisition is emitted if at least one sold leg of the swap has value_usd
\* approximately equal to b.value_usd, and none otherwise; it has amount =
\* b.amount, value = b.value_usd, buy price = b.value_usd / b.amount and the
\* swap's timestamp and transaction hash, whichever sold legs match.  The
\* Acquisition of a non-ignored token is the last entry but n of its
\* position's history, n being the later acquisitions of the token in the swap.
C16_LegMatcher ==
    [][(IsCall /\ ~HasOpenSoldLeg(bought_tokens, swap_in')) =>
        \A i \in DOMAIN swap_in'.bought_tokens :
            LET b == swap_in'.bought_tokens[i]
                emitted == _create_single_token_buy(swap_in', b,
                                                    swap_in'.transaction_hash)
                later == {k \in AcquiredLegs(swap_in', b.address) : k > i}
            IN  /\ emitted = IF LegMatched(swap_in', b)
                             THEN <<LegAcquisition(swap_in', b)>>
                             ELSE <<>>
                /\ i \in AcquiredLegs(swap_in', b.address) =>
                      /\ b.address \in DOMAIN bought_tokens'
                      /\ LET h == bought_tokens'[b.address].single_token_buys
                         IN  /\ Len(h) > Cardinality(later)
                             /\ h[Len(h) - Cardinality(later)] =
                                   LegAcquisition(swap_in', b)
                /\ (AcquiredLegs(swap_in', b.address) = {}) =>
                      /\ b.address \in DOMAIN bought_tokens' <=>
                            b.address \in DOMAIN bought_tokens
                      /\ b.address \in DOMAIN bought_tokens =>
                            bought_tokens'[b.address] = bought_tokens[b.address]]_vars

\* the bought leg of a non-closing swap was matched by the second sold leg
\* and not by the first, and its acquisition is in the ledger
C16_Witness ==
    /\ swap_in # NoSwap
    /\ ~LastCallClosed
    /\ Len(swap_in.sold_tokens) = 2
    /\ \E i \in DOMAIN swap_in.bought_tokens :
          LET b == swap_in.bought_tokens[i]
          IN  /\ ~_are_numbers_equal(b.value_usd, swap_in.sold_tokens[1].value_usd,
                                     DIFF_DIVIDER)
              /\ _are_numbers_equal(b.value_usd, swap_in.sold_tokens[2].value_usd,
                                    DIFF_DIVIDER)
              /\ b.address \in DOMAIN bought_tokens
              /\ bought_tokens[b.address].single_token_buys =
                    <<LegAcquisition(swap_in, b)>>

\* ---------------------------------------------------------------- C17
\* the acquisitions of the matched, non-ignored legs among the first n
\* bought legs of the swap, in leg order
RECURSIVE MatchedAcquisitions(_, _)
MatchedAcquisitions(swap, n) ==
    IF n = 0 THEN <<>>
    ELSE LET b == swap.bought_tokens[n]
         IN  IF n \in AcquiredLegs(swap, b.address)
             THEN Append(MatchedAcquisitions(swap, n - 1), LegAcquisition(swap, b))
             ELSE MatchedAcquisitions(swap, n - 1)

\* the bought legs of the swap that no sold leg matches
UnmatchedLegs(swap) ==
    {i \in DOMAIN swap.bought_tokens : ~LegMatched(swap, swap.bought_tokens[i])}

\* C17 (Unmatched leg is non-fatal): when a non-closing swap has a bought leg
\* with no sold leg within tolerance, receive_token_swap does not fail, the
\* leg produces no Acquisition and no ledger change, and the other bought
\* legs, before and after it, are matched and applied to the ledger as if
\* the unmatched leg were not there.
C17_UnmatchedNonFatal ==
    [][(/\ IsCall
        /\ ~HasOpenSoldLeg(bought_tokens, swap_in')
        /\ UnmatchedLegs(swap_in') # {}) =>
            LET acqs == MatchedAcquisitions(swap_in', Len(swap_in'.bought_tokens))
            IN  /\ ~raised'
                /\ finished_trades' = finished_trades
                /\ swap_out' = swap_in'
                /\ \A k \in DOMAIN acqs :
                      acqs[k].token_bought \notin
                          {swap_in'.bought_tokens[i] : i \in UnmatchedLegs(swap_in')}
                /\ bought_tokens' = AppliedInOrder(bought_tokens, acqs, Len(acqs))]_vars

\* the first bought leg of the swap was unmatched and dropped, the second
\* was matched and opened a position
C17_Witness ==
    /\ swap_in # NoSwap
    /\ ~LastCallClosed
    /\ ~raised
    /\ Len(swap_in.bought_tokens) = 2
    /\ UnmatchedLegs(swap_in) = {1}
    /\ swap_in.bought_tokens[2].address \in DOMAIN bought_tokens
    /\ bought_tokens[swap_in.bought_tokens[2].address].single_token_buys =
          <<LegAcquisition(swap_in, swap_in.bought_tokens[2])>>

\* ---------------------------------------------------------------- C18
\* the position in the swap of its first sold leg with an open position
FirstOpenSoldIndex(tokens, swap) ==
    CHOOSE i \in OpenSoldLegs(tokens, swap) :
        \A j \in OpenSoldLegs(tokens, swap) : i <= j

\* C18: receive_token_swap modifies its input swap only in the over-sell
\* case: when the closing sold leg's amount exceeds the position's held
\* amount, that leg's amount is overwritten with the held amount and its
\* value_usd and price_usd stay as they were; in every other case no field
\* of the swap or of its legs is changed.
C18_SwapMutatedOnlyOnOverSell ==
    [][IsCall =>
        IF /\ HasOpenSoldLeg(bought_tokens, swap_in')
           /\ FGt(FirstOpenSoldLeg(bought_tokens, swap_in').amount,
                  bought_tokens[FirstOpenSoldLeg(bought_tokens, swap_in').address]
                      .currently_held_amount)
        THEN LET i == FirstOpenSoldIndex(bought_tokens, swap_in')
                 held == bought_tokens[swap_in'.sold_tokens[i].address]
                             .currently_held_amount
             IN  /\ swap_out' = [swap_in' EXCEPT !.sold_tokens[i].amount = held]
                 /\ swap_out' # swap_in'
                 /\ swap_out'.sold_tokens[i].value_usd =
                       swap_in'.sold_tokens[i].value_usd
                 /\ swap_out'.sold_tokens[i].price_usd =
                       swap_in'.sold_tokens[i].price_usd
        ELSE swap_out' = swap_in']_vars

\* the second sold leg of the swap over-sold a position and was clamped;
\* the first sold leg, of a token without a position, is as it was
C18_Witness ==
    /\ LastCallClosed
    /\ Len(swap_in.sold_tokens) = 2
    /\ swap_out.sold_tokens[1] = swap_in.sold_tokens[1]
    /\ swap_out.sold_tokens[2].amount = LastTrade.amount
    /\ FLt(swap_out.sold_tokens[2].amount, swap_in.sold_tokens[2].amount)
    /\ swap_out.sold_tokens[2].price_usd = swap_in.sold_tokens[2].price_usd

\* ---------------------------------------------------------------- C19
\* C19: the approximate-equality test is symmetric: what
\* _are_numbers_equal(x, y) returned is what _are_numbers_equal(y, x)
\* returns, for all values x and y.
C19_Symmetric ==
    numbers_equal # <<>> =>
        numbers_equal[1] = _are_numbers_equal(num_2, num_1, DIFF_DIVIDER)

\* two different values were found approximately equal
C19_Witness ==
    /\ numbers_equal = <<TRUE>>
    /\ FLt(num_1, num_2)
    /\ num_1[2] # 1

\* ---------------------------------------------------------------- C20
\* this step is a call whose first position-matching sold leg is of the
\* token at X and sells at least the amount held
SellsOut(X) ==
    /\ IsCall
    /\ HasOpenSoldLeg(bought_tokens, swap_in')
    /\ FirstOpenSoldLeg(bought_tokens, swap_in').address = X
    /\ FLe(bought_tokens[X].currently_held_amount,
           FirstOpenSoldLeg(bought_tokens, swap_in').amount)

\* C20 (A position is tracked until fully sold): a position for token X that
\* is in the ledger is still there after a step, unless the step is a call
\* whose first position-matching sold leg is X and sells an amount greater
\* than or equal to the held amount, and then it is removed; calls on the
\* open/extend path and closes of other tokens never remove it.
C20_TrackedUntilSold ==
    [][\A X \in DOMAIN bought_tokens :
          /\ X \notin DOMAIN bought_tokens' <=> SellsOut(X)
          /\ (IsCall /\ ~HasOpenSoldLeg(bought_tokens, swap_in')) =>
                X \in DOMAIN bought_tokens'
          /\ (/\ IsCall
              /\ HasOpenSoldLeg(bought_tokens, swap_in')
              /\ FirstOpenSoldLeg(bought_tokens, swap_in').address # X) =>
                (X \in DOMAIN bought_tokens' /\ bought_tokens'[X] = bought_tokens[X])]_vars

\* a position outlived the close of another token and a partial sale of
\* its own
C20_Witness ==
    /\ LastCallClosed
    /\ Len(finished_trades) = 2
    /\ finished_trades[1].token_bought.address # finished_trades[2].token_bought.address
    /\ finished_trades[2].token_bought.address \in DOMAIN bought_tokens
    /\ finished_trades[1].token_bought.address \notin DOMAIN bought_tokens

\* ---------------------------------------------------------------- C21
\* exact sum and difference of two rationals
QAdd(x, y) == Norm(x[1] * y[2] + y[1] * x[2], x[2] * y[2])
QSub(x, y) == Norm(x[1] * y[2] - y[1] * x[2], x[2] * y[2])

\* the exact sum of the amounts of the first n acquisitions of the list
RECURSIVE AmountOf(_, _)
AmountOf(acqs, n) ==
    IF n = 0 THEN Zero
    ELSE QAdd(AmountOf(acqs, n - 1), acqs[n].bought_token_amount)

\* the addresses of the tokens swaps can carry
Addresses == {leg.address : leg \in Legs}

\* the amount of the token at X the ledger holds, zero without a position
Held(tokens, X) ==
    IF X \in DOMAIN tokens THEN tokens[X].currently_held_amount ELSE Zero

\* the amount of the token at X this call applies to the ledger
AcquiredNow(X) ==
    IF HasOpenSoldLeg(bought_tokens, swap_in') THEN Zero
    ELSE AmountOf(BuysOf(Acquired(swap_in'), X),
                  Len(BuysOf(Acquired(swap_in'), X)))

\* the amount of the token at X this call realizes
RealizedNow(X) ==
    IF IsClose /\ finished_trades'[Len(finished_trades')].token_bought.address = X
    THEN finished_trades'[Len(finished_trades')].amount
    ELSE Zero

Targets ==
    IF HasOpenSoldLeg(bought_tokens, swap_in')
    THEN {FirstOpenSoldLeg(bought_tokens, swap_in').address}
    ELSE {X \in Addresses : AcquiredLegs(swap_in', X) # {}}

\* C22: each receive_token_swap call changes only the positions it targets:
\* a closing swap changes only the one matched position (its held amount is
\* reduced, or the entry is removed), a non-closing swap changes only the
\* positions of the tokens it acquires; every other entry of the
\* open-positions mapping keeps its held amount, average price and history,
\* and no entry appears for a token that is not acquired.
C22_OnlyTargetsChange ==
    [][IsCall =>
        /\ \A X \in DOMAIN bought_tokens \ Targets :
              /\ X \in DOMAIN bought_tokens'
              /\ bought_tokens'[X] = bought_tokens[X]
        /\ \A X \in DOMAIN bought_tokens' \ DOMAIN bought_tokens :
              /\ X \in Targets
              /\ ~HasOpenSoldLeg(bought_tokens, swap_in')
        /\ HasOpenSoldLeg(bought_tokens, swap_in') =>
              \A X \in Targets :
                  \/ X \notin DOMAIN bought_tokens'
                  \/ /\ FLt(bought_tokens'[X].currently_held_amount,
                            bought_tokens[X].currently_held_amount)
                     /\ bought_tokens'[X] =
                           [bought_tokens[X] EXCEPT !.currently_held_amount =
                               bought_tokens'[X].currently_held_amount]]_vars

\* one of two positions was sold out; the other, bought earlier at another
\* price, is as it was
C22_Witness ==
    /\ LastCallClosed
    /\ LastTrade.token_bought.address \notin DOMAIN bought_tokens
    /\ \E X \in DOMAIN bought_tokens :
          /\ X # LastTrade.token_bought.address
          /\ bought_tokens[X].single_token_buys[1].buy_time < swap_in.time
          /\ bought_tokens[X].currently_held_amount =
                bought_tokens[X].single_token_buys[1].bought_token_amount

\* ---------------------------------------------------------------- C23
\* a position for the token at X was closed and nothing of X is held now
FullyClosed(X) ==
    /\ Held(bought_tokens, X) = Zero
    /\ \E k \in DOMAIN finished_trades : finished_trades[k].token_bought.address = X

\* C23 (Re-opening after a full close starts a fresh cost basis): when a
\* position for token X was fully closed and a later call acquires X again,
\* in one bought leg b, the new position's average price is b's price, its
\* held amount is b's amount and its history contains only the new
\* acquisition; nothing of the closed position carries over.
C23_ReopenStartsFresh ==
    [][\A i \in DOMAIN swap_in'.bought_tokens :
        LET b == swap_in'.bought_tokens[i]
        IN  (/\ IsCall
             /\ FullyClosed(b.address)
             /\ ~HasOpenSoldLeg(bought_tokens, swap_in')
             /\ AcquiredLegs(swap_in', b.address) = {i}) =>
                /\ b.address \in DOMAIN bought_tokens'
                /\ bought_tokens'[b.address] =
                      [token_bought |-> b,
                       currently_held_amount |-> b.amount,
                       average_buy_price_usd |-> FDiv(b.value_usd, b.amount),
                       single_token_buys |-> <<LegAcquisition(swap_in', b)>>]]_vars

\* a token was bought, sold out and bought again at another price and in
\* another amount
C23_Witness ==
    /\ calls = 3
    /\ swap_in # NoSwap
    /\ ~LastCallClosed
    /\ Len(finished_trades) = 1
    /\ LET X == finished_trades[1].token_bought.address
       IN  /\ X \in DOMAIN bought_tokens
           /\ Len(bought_tokens[X].single_token_buys) = 1
           /\ bought_tokens[X].single_token_buys[1].buy_time = 3
           /\ bought_tokens[X].average_buy_price_usd # finished_trades[1].buy_price_usd
           /\ bought_tokens[X].currently_held_amount # finished_trades[1].amount

\* ---------------------------------------------------------------- C24
\* the larger and the smaller of the two values
Larger == IF FLt(num_1, num_2) THEN num_2 ELSE num_1
Smaller == IF FLt(num_1, num_2) THEN num_1 ELSE num_2

\* the larger value is strictly less than three times the smaller, exactly
LessThanTriple == Larger[1] * Smaller[2] < 3 * Smaller[1] * Larger[2]

\* the larger value is further from three times the smaller than rounding
\* can reach: twenty units of relative rounding error of the smaller value
ClearOfTriple ==
    20 * Smaller[1] * Larger[2] <
        MaxSig * IAbs(Larger[1] * Smaller[2] - 3 * Smaller[1] * Larger[2])

\* a leg of the given USD value
ValuedLeg(token, value_usd) ==
    [address |-> token.address, symbol |-> token.symbol, amount |-> Float(1),
     value_usd |-> value_usd, price_usd |-> FDiv(value_usd, Float(1))]

\* the Acquisition, if any, for a bought leg worth num_1 in a swap whose one
\* sold leg is worth num_2
AcquisitionFor ==
    _create_single_token_buy(
        TokenSwap(1, <<ValuedLeg(USDT, num_2)>>, <<ValuedLeg(SPEX, num_1)>>, 1),
        ValuedLeg(SPEX, num_1), 1)

\* C24 as stated: for non-negative values x and y and any positive divisor,
\* _are_numbers_equal(x, y) holds exactly when the larger value is strictly
\* less than three times the smaller value; so a value of 0 is never matched,
\* not even with 0, and a zero-valued bought leg yields no Acquisition.
C24_DivisorIndependent ==
    numbers_equal # <<>> =>
        /\ numbers_equal[1] = LessThanTriple
        /\ num_1 = Zero => AcquisitionFor = <<>>

\* C24 as amended: for non-negative x and y and a positive divisor,
\* _are_numbers_equal(x, y) holds exactly when the larger value is strictly
\* less than three times the smaller value, except where the larger value is
\* within rounding of three times the smaller: there the rounded quotients
\* x / divisor and y / divisor decide and the result can depend on the
\* divisor.  A value of 0 is never matched, not even with 0, and a zero-valued
\* bought leg yields no Acquisition.
C24_TripleUpToRounding ==
    numbers_equal # <<>> =>
        /\ ClearOfTriple => numbers_equal[1] = LessThanTriple
        /\ (num_1 = Zero \/ num_2 = Zero) => numbers_equal[1] = FALSE
        /\ num_1 = Zero => AcquisitionFor = <<>>

\* with the default divisor 3 and 1 are judged equal, though 3 is not less
\* than three times 1
C24_Witness ==
    /\ numbers_equal = <<TRUE>>
    /\ diff_divider = DIFF_DIVIDER
    /\ num_1 = Float(3)
    /\ num_2 = Float(1)

\* --------------------------------------------------------------- C25
\* the buy prices of the Acquisitions in the history of the position at X
HistoryPrices(X) ==
    {bought_tokens[X].single_token_buys[i].buy_price_usd :
        i \in DOMAIN bought_tokens[X].single_token_buys}

\* the average price of the position at X is at least the lowest and at most
\* the highest buy price of its history
WithinHistoryPrices(X) ==
    /\ \E p \in HistoryPrices(X) : FLe(p, bought_tokens[X].average_buy_price_usd)
    /\ \E p \in HistoryPrices(X) : FLe(bought_tokens[X].average_buy_price_usd, p)

\* C25: in every reachable state each open position's average_buy_price_usd
\* is at least the minimum and at most the maximum of the buy prices of the
\* Acquisitions in its history, and its history is non-empty.
C25_AverageWithinPrices ==
    \A X \in DOMAIN bought_tokens :
        /\ bought_tokens[X].single_token_buys # <<>>
        /\ WithinHistoryPrices(X)

\* the number of times the position at X was extended since it was opened
Extensions(X) == Len(bought_tokens[X].single_token_buys) - 1

\* the average price of the position at X is within five units of relative
\* rounding error per extension of the range of the buy prices of its history
WithinRoundingOfHistoryPrices(X) ==
    LET average == bought_tokens[X].average_buy_price_usd
        slack == 5 * Extensions(X)
    IN  /\ \E p \in HistoryPrices(X) :
              p[1] * (MaxSig - slack) * average[2] <= average[1] * p[2] * MaxSig
        /\ \E p \in HistoryPrices(X) :
              average[1] * p[2] * MaxSig <= p[1] * (MaxSig + slack) * average[2]

\* C25 as amended: in every reachable state each open position's history is
\* non-empty and its average_buy_price_usd is within the range of the buy
\* prices of its history up to floating-point rounding: at least the minimum
\* less five units of relative rounding error per extension of the position,
\* and at most the maximum plus as much; a position that was never extended
\* has exactly the buy price of its one Acquisition.
C25_AverageWithinRoundingOfPrices ==
    \A X \in DOMAIN bought_tokens :
        /\ bought_tokens[X].single_token_buys # <<>>
        /\ WithinRoundingOfHistoryPrices(X)

\* a position bought at two different prices whose average lies strictly
\* between them
C25_Witness ==
    \E X \in DOMAIN bought_tokens :
        /\ Len(bought_tokens[X].single_token_buys) = 2
        /\ \E p, q \in HistoryPrices(X) :
              /\ FLt(p, bought_tokens[X].average_buy_price_usd)
              /\ FLt(bought_tokens[X].average_buy_price_usd, q)

=============================================================================
